---- MODULE Spec2Model ----
(***************************************************************************)
(* EchoFriend (src/echofriend.py): the turn loop of main(), one call of    *)
(* EchoFriend.process_conversation_turn per iteration, the end-of-session  *)
(* feedback and the teardown.  One action per blocking step of the         *)
(* program.  The external services (Whisper, GPT-4, TTS), the microphone,  *)
(* the keyboard and the console input are inputs drawn with \E.            *)
(* KeyboardInterrupt is not an Exception, so no `except Exception` of the  *)
(* program catches it: it is delivered at the blocking calls (input(),     *)
(* keyboard.wait, the service calls, playback) and unwinds to main().      *)
(* Console output does not fail; input() may raise EOFError, the one       *)
(* Exception that reaches main's `except Exception`.                       *)
(***************************************************************************)
EXTENDS Integers, Sequences, FiniteSets, TLC

\* ---------------------------------------------------------------- bounds
MaxAttempts == 3      \* loop iterations that run a turn
MaxFrames == 2        \* polls of the space key during one capture

\* ------------------------------------------------------------ value sets
None == "None"                          \* Python's None, where a text is expected
NoPath == <<>>                          \* Python's None, where a path is expected
Texts == {"Ik wil een appel"}           \* utterances Whisper may recognise
Replies == {"Welke appel wilt u?"}      \* replies GPT-4 may give
Repr == "<transcript object>"           \* str() of a response of unknown shape
FeedbackReport == "feedback report"     \* text GPT-4 may give as feedback
Scenario == "Supermarket Shopping"
SystemPrompt == "You are a friendly Dutch language learning assistant in a '" \o Scenario \o "' scenario."
NoConversationMessage == "No conversation recorded. See you next time!"
ApiKeyMissingMessage == "Error: OPENAI_API_KEY environment variable not set"
ClientErrorTraceback == "traceback of the error raised by OpenAI(api_key=None)"
FeedbackErrorMessage == "Sorry, could not generate feedback due to an error."

VARIABLES
    pc,                    \* position of main()
    api_key,               \* OPENAI_API_KEY is set in the environment
    microphone_device,     \* main's microphone_device
    session,               \* echo_friend has been constructed
    conversation_history,  \* EchoFriend.conversation_history
    user_inputs,           \* EchoFriend.user_inputs
    turn,                  \* main's turn (0: not yet assigned)
    frames,                \* len(frames) at the end of record_audio
    key_held,              \* polls of record_audio's loop that found the key pressed
    audio_file,            \* locals of process_conversation_turn
    transcript,            \* speech_to_text's transcript (the service's answer)
    user_text,
    ai_response,
    audio_response,
    playback,              \* how play_audio ended
    success,               \* value returned by process_conversation_turn
    failed_stage,          \* the "Step N failed" message printed
    files,                 \* paths that exist under audio_files/
    terminated,            \* calls of recorder.audio.terminate()
    feedback,              \* text printed by the feedback step
    exit_route,            \* how the loop of main() was left
    retry,                 \* main's retry: the last answer at the retry prompt
    console,               \* the start-up error shown to the user, if any
    \* history of the run, read by the properties only
    attempts,              \* loop iterations that ran a turn
    completed,             \* turns that returned True
    stages,                \* stages invoked in the turn in progress, in order
    hist0,                 \* conversation_history when the current turn began
    inputs0,               \* user_inputs when the current turn began
    chat_log,              \* calls of chat.completions.create by generate_response
    feedback_log,          \* calls of chat.completions.create by generate_feedback
    written                \* writes of audio files: turn, kind, path

env == <<api_key, microphone_device>>
sessionState == <<session, conversation_history, user_inputs>>
locals == <<frames, key_held, audio_file, transcript, user_text, ai_response, audio_response, playback>>
result == <<success, failed_stage>>
ui == <<retry, console>>
disk == <<files, written>>
trace == <<attempts, completed, stages, hist0, inputs0, chat_log, feedback_log>>
vars == <<pc, env, ui, sessionState, turn, locals, result, disk, terminated, feedback,
          exit_route, trace>>

\* --------------------------------------------------------------- helpers
IsPrefix(s, t) == Len(s) <= Len(t) /\ SubSeq(t, 1, Len(s)) = s

\* Python truthiness of an optional text: `not x`
Falsy(x) == x = None \/ x = ""

DigitChar(d) ==
    CASE d = 0 -> "0" [] d = 1 -> "1" [] d = 2 -> "2" [] d = 3 -> "3" [] d = 4 -> "4"
      [] d = 5 -> "5" [] d = 6 -> "6" [] d = 7 -> "7" [] d = 8 -> "8" [] d = 9 -> "9"

RECURSIVE FormatInt(_)
\* f"{turn_number}": the decimal digits of a non-negative integer
FormatInt(n) == IF n < 10 THEN <<DigitChar(n)>>
                ELSE FormatInt(n \div 10) \o <<DigitChar(n % 10)>>

UserInputPathSameName(turn_number) == <<"audio_files/", "user_input", ".wav">>

\* record_user_input: audio_dir / f"user_input_{turn_number}.wav"
UserInputPath(turn_number) ==
    <<"audio_files/", "user_input_">> \o FormatInt(turn_number) \o <<".wav">>

\* text_to_speech: audio_dir / f"ai_response_{turn_number}.mp3"
AiResponsePath(turn_number) ==
    <<"audio_files/", "ai_response_">> \o FormatInt(turn_number) \o <<".mp3">>

\* start_conversation: the system entry is appended to the history
StartConversation(history) ==
    Append(history, [role |-> "system", content |-> SystemPrompt])

AppendUserEntryNothing(history, text) == history

\* generate_response: conversation_history.append({"role": "user", ...})
AppendUserEntry(history, text) ==
    Append(history, [role |-> "user", content |-> text])

AppendAssistantEntryFirst(history, text) ==
    <<[role |-> "assistant", content |-> text]>> \o history

\* generate_response: conversation_history.append({"role": "assistant", ...})
AppendAssistantEntry(history, text) ==
    Append(history, [role |-> "assistant", content |-> text])

HistoryAfterReplyRollback(messages, reply) ==
    IF reply = "error" THEN SubSeq(messages, 1, Len(messages) - 1)
    ELSE IF reply = "interrupt" THEN messages
    ELSE AppendAssistantEntry(messages, reply)

HistoryAfterReplyNoAssistant(messages, reply) == messages

\* generate_response after the user entry: the call raises (the handler returns
\* None, or KeyboardInterrupt passes through), or the reply is appended
HistoryAfterReply(messages, reply) ==
    IF reply \in {"error", "interrupt"} THEN messages
    ELSE AppendAssistantEntry(messages, reply)

AppendUserInputTwice(inputs, history, text) ==
    inputs \o <<[text |-> text, timestamp |-> Len(history)],
                [text |-> text, timestamp |-> Len(history)]>>

AppendUserInputAfterEntry(inputs, history, text) ==
    Append(inputs, [text |-> text, timestamp |-> Len(history) + 1])

\* generate_response: user_inputs.append({"text": ..., "timestamp": len(history)})
AppendUserInput(inputs, history, text) ==
    Append(inputs, [text |-> text, timestamp |-> Len(history)])

\* record_audio's while loop: the key is held for `held` polls; the read of poll
\* `err_at` raises (0: no read raises), and the handler breaks out of the loop
CapturedFrames(held, err_at) == IF err_at = 0 THEN held ELSE err_at - 1

\* record_audio's return value
RecordAudioReturn(ev, n, filename) ==
    IF ev = "open_error" THEN NoPath       \* except Exception: return None
    ELSE IF n = 0 THEN NoPath              \* len(frames) == 0: return None
    ELSE IF ev = "write_error" THEN NoPath \* except Exception: return None
    ELSE filename

\* answers of the transcription service, by shape
NoTranscript == [shape |-> "none", text |-> None]
Transcripts ==
    {[shape |-> "error", text |-> None], [shape |-> "other", text |-> None]}
    \cup [shape : {"str", "dict"}, text : Texts \cup {""}]
    \cup [shape : {"object"}, text : Texts \cup {"", None}]

\* speech_to_text's return value
SpeechToTextReturn(t) ==
    CASE t.shape = "error" -> None                       \* except Exception
      [] t.shape \in {"str", "object", "dict"} -> t.text
      [] OTHER -> Repr                                   \* str(transcript)

Step1FailedNever(file) == FALSE

Step1Failed(file) == file = NoPath           \* if not audio_file

Step2FailedOnlyNone(text) == text = None

Step2Failed(text) == Falsy(text)             \* if not user_text

Step3FailedNever(text) == FALSE

Step3Failed(text) == Falsy(text)             \* if not ai_response

Step4FailedNever(file) == FALSE

Step4Failed(file) == file = NoPath           \* if not audio_response

Step5ReturnPlayback(how) == how = "ok"

\* process_conversation_turn after play_audio: return True
Step5Return(how) == TRUE

KeyPresentAlways(key) == TRUE

\* main: if not os.getenv("OPENAI_API_KEY") ... return
KeyPresent(key) == key

AfterRetryAnswerAlwaysLoop(answer) ==
    CASE answer \in {"y", "n"} -> "loop" [] OTHER -> "finally"

AfterRetryAnswerDeclineEnds(answer) ==
    CASE answer = "y" -> "loop" [] OTHER -> "finally"

AfterRetryAnswerNotYesBreaks(answer) ==
    CASE answer = "y" -> "loop"
      [] answer = "interrupt" -> "finally"
      [] OTHER -> "feedback"

\* main: retry = input(...); if retry != 'y': break; continue.  input() may
\* raise instead of answering
AfterRetryAnswer(answer) ==
    CASE answer = "y" -> "loop"
      [] answer = "n" -> "feedback"
      [] OTHER -> "finally"

FeedbackReturnPropagates(reply) == reply

\* generate_feedback: the reply's content, or the apology of the except branch
FeedbackReturn(reply) == IF reply = "error" THEN FeedbackErrorMessage ELSE reply

TurnAfterAlwaysNext(t, ok) == t + 1

\* main: `continue` after a failed turn, `turn += 1` after a successful one
TurnAfter(t, ok) == IF ok THEN t + 1 ELSE t

RecorderCleanupForgotten(n) == n

\* AudioRecorder.cleanup: self.audio.terminate()
RecorderCleanup(n) == n + 1

FeedbackWantedAlways(inputs) == TRUE

\* main: if len(echo_friend.user_inputs) > 0
FeedbackWanted(inputs) == Len(inputs) > 0

FormatConversationEveryEntry(history) ==
    [i \in 1..Len(history) |-> <<"Learner: ", history[i].content>>]

RECURSIVE FormatConversation(_)
\* _format_conversation_for_analysis
FormatConversation(history) ==
    IF history = <<>> THEN <<>>
    ELSE LET msg == Head(history)
             line == IF msg.role = "user" THEN <<<<"Learner: ", msg.content>>>>
                     ELSE IF msg.role = "assistant" THEN <<<<"Assistant: ", msg.content>>>>
                     ELSE <<>>
         IN line \o FormatConversation(Tail(history))

\* ------------------------------------------------------------------ Init
Init ==
    /\ pc = "import"
    /\ api_key \in BOOLEAN
    /\ microphone_device = "None"
    /\ session = FALSE
    /\ conversation_history = <<>>
    /\ user_inputs = <<>>
    /\ turn = 0
    /\ frames = 0
    /\ key_held = 0
    /\ audio_file = NoPath
    /\ transcript = NoTranscript
    /\ user_text = None
    /\ ai_response = None
    /\ audio_response = NoPath
    /\ playback = "none"
    /\ success = FALSE
    /\ failed_stage = "none"
    /\ files = {}
    /\ terminated = 0
    /\ feedback = "none"
    /\ exit_route = "none"
    /\ retry = "none"
    /\ console = "none"
    /\ attempts = 0
    /\ completed = 0
    /\ stages = <<>>
    /\ hist0 = <<>>
    /\ inputs0 = <<>>
    /\ chat_log = <<>>
    /\ feedback_log = <<>>
    /\ written = {}

\* --------------------------------------------------------------- actions
Interrupted ==      \* KeyboardInterrupt reaches main's handler, then finally
    /\ pc' = "finally"
    /\ exit_route' = "interrupt"

\* module level: client = OpenAI(api_key=api_key); whether the library accepts
\* a missing key is not decided by this repository
ModuleInit ==
    /\ pc = "import"
    /\ \E raises \in BOOLEAN :
         /\ raises => ~api_key
         /\ pc' = IF raises THEN "done" ELSE "main"
         /\ console' = IF raises THEN ClientErrorTraceback ELSE console
    /\ UNCHANGED <<env, retry, sessionState, turn, locals, result, disk, terminated,
                   feedback, exit_route, trace>>

\* main: the API key check
MainCheckKey ==
    /\ pc = "main"
    /\ pc' = IF KeyPresent(api_key) THEN "select_microphone" ELSE "done"
    /\ console' = IF KeyPresent(api_key) THEN console ELSE ApiKeyMissingMessage
    /\ UNCHANGED <<env, retry, sessionState, turn, locals, result, disk, terminated,
                   feedback, exit_route, trace>>

\* main: the microphone prompt, before the session exists and outside the try
MainSelectMicrophone ==
    /\ pc = "select_microphone"
    /\ \E answer \in {"n", "y", "interrupt"} :
         /\ pc' = IF answer = "interrupt" THEN "done" ELSE "create_session"
         /\ microphone_device' = IF answer = "y" THEN "selected" ELSE "None"
    /\ UNCHANGED <<api_key, ui, sessionState, turn, locals, result, disk, terminated,
                   feedback, exit_route, trace>>

\* main: EchoFriend(...), start_conversation(), turn = 1
MainCreateSession ==
    /\ pc = "create_session"
    /\ session' = TRUE
    /\ conversation_history' = StartConversation(<<>>)
    /\ user_inputs' = <<>>
    /\ turn' = 1
    /\ pc' = "loop"
    /\ UNCHANGED <<env, ui, locals, result, disk, terminated, feedback, exit_route, trace>>

\* main: the prompt at the head of the loop, and the call of
\* process_conversation_turn(turn)
MainLoopPrompt ==
    /\ pc = "loop"
    /\ \E answer \in {"", "quit", "eof", "interrupt"} :
         /\ answer = "" => attempts < MaxAttempts
         /\ IF answer = ""
            THEN /\ pc' = "record"
                 /\ attempts' = attempts + 1
                 /\ stages' = <<>>
                 /\ hist0' = conversation_history
                 /\ inputs0' = user_inputs
                 /\ frames' = 0
                 /\ key_held' = 0
                 /\ audio_file' = NoPath
                 /\ transcript' = NoTranscript
                 /\ user_text' = None
                 /\ ai_response' = None
                 /\ audio_response' = NoPath
                 /\ playback' = "none"
                 /\ failed_stage' = "none"
                 /\ UNCHANGED exit_route
            ELSE /\ pc' = IF answer = "quit" THEN "feedback" ELSE "finally"
                 /\ exit_route' = CASE answer = "quit" -> "quit"
                                    [] answer = "eof" -> "exception"
                                    [] OTHER -> "interrupt"
                 /\ UNCHANGED <<locals, failed_stage, attempts, stages, hist0, inputs0>>
    /\ UNCHANGED <<env, ui, sessionState, turn, success, disk, terminated, feedback,
                   completed, chat_log, feedback_log>>

\* Step 1: record_user_input and AudioRecorder.record_audio
RecordUserInput ==
    /\ pc = "record"
    /\ stages' = Append(stages, "record")
    /\ \E ev \in {"captured", "open_error", "write_error", "interrupt"},
          held \in 0..MaxFrames :
       \E err_at \in 0..held :
         LET filename == UserInputPath(turn)
             n == IF ev = "open_error" THEN 0 ELSE CapturedFrames(held, err_at)
             file == RecordAudioReturn(ev, n, filename)
         IN /\ IF ev = "interrupt"
               THEN /\ Interrupted
                    /\ UNCHANGED <<frames, key_held, audio_file, result, disk>>
               ELSE /\ frames' = n
                    /\ key_held' = IF ev = "open_error" THEN 0 ELSE held
                    /\ audio_file' = file
                    /\ files' = IF file = NoPath THEN files ELSE files \cup {filename}
                    /\ written' = IF file = NoPath THEN written
                                  ELSE written \cup {[turn |-> turn, kind |-> "capture",
                                                      path |-> filename]}
                    /\ IF Step1Failed(file)
                       THEN /\ success' = FALSE
                            /\ failed_stage' = "capture"
                            /\ pc' = "turn_returned"
                       ELSE /\ pc' = "transcribe"
                            /\ UNCHANGED result
                    /\ UNCHANGED exit_route
    /\ UNCHANGED <<env, ui, sessionState, turn, transcript, user_text, ai_response,
                   audio_response, playback, terminated, feedback, attempts, completed,
                   hist0, inputs0, chat_log, feedback_log>>

\* Step 2: speech_to_text
SpeechToText ==
    /\ pc = "transcribe"
    /\ stages' = Append(stages, "transcribe")
    /\ \/ /\ Interrupted
          /\ UNCHANGED <<transcript, user_text, result>>
       \/ \E t \in Transcripts :
            \* open(audio_file_path) raises when there is no such file
            /\ audio_file \notin files => t.shape = "error"
            /\ transcript' = t
            /\ user_text' = SpeechToTextReturn(t)
            /\ IF Step2Failed(SpeechToTextReturn(t))
               THEN /\ success' = FALSE
                    /\ failed_stage' = "transcription"
                    /\ pc' = "turn_returned"
               ELSE /\ pc' = "respond"
                    /\ UNCHANGED result
            /\ UNCHANGED exit_route
    /\ UNCHANGED <<env, ui, sessionState, turn, frames, key_held, audio_file, ai_response,
                   audio_response, playback, disk, terminated, feedback, attempts,
                   completed, hist0, inputs0, chat_log, feedback_log>>

\* Step 3: generate_response
GenerateResponse ==
    /\ pc = "respond"
    /\ stages' = Append(stages, "respond")
    /\ user_inputs' = AppendUserInput(user_inputs, conversation_history, user_text)
    /\ LET messages == AppendUserEntry(conversation_history, user_text)
       IN \E reply \in Replies \cup {"", None, "error", "interrupt"} :
            /\ chat_log' = Append(chat_log, [messages |-> messages, reply |-> reply])
            /\ IF reply = "interrupt"
               THEN /\ Interrupted
                    /\ conversation_history' = HistoryAfterReply(messages, reply)
                    /\ UNCHANGED <<ai_response, result>>
               ELSE /\ conversation_history' = HistoryAfterReply(messages, reply)
                    /\ ai_response' = IF reply = "error" THEN None ELSE reply
                    /\ IF Step3Failed(ai_response')
                       THEN /\ success' = FALSE
                            /\ failed_stage' = "response"
                            /\ pc' = "turn_returned"
                       ELSE /\ pc' = "synthesize"
                            /\ UNCHANGED result
                    /\ UNCHANGED exit_route
    /\ UNCHANGED <<env, ui, session, turn, frames, key_held, audio_file, transcript, user_text,
                   audio_response, playback, disk, terminated, feedback, attempts,
                   completed, hist0, inputs0, feedback_log>>

\* Step 4: text_to_speech
TextToSpeech ==
    /\ pc = "synthesize"
    /\ stages' = Append(stages, "synthesize")
    /\ \E ev \in {"ok", "error", "interrupt"} :
         LET speech_file_path == AiResponsePath(turn)
         IN IF ev = "interrupt"
            THEN /\ Interrupted
                 /\ UNCHANGED <<audio_response, result, disk>>
            ELSE /\ audio_response' = IF ev = "ok" THEN speech_file_path ELSE NoPath
                 /\ files' = IF ev = "ok" THEN files \cup {speech_file_path} ELSE files
                 /\ written' = IF ev = "ok"
                               THEN written \cup {[turn |-> turn, kind |-> "speech",
                                                   path |-> speech_file_path]}
                               ELSE written
                 /\ IF Step4Failed(audio_response')
                    THEN /\ success' = FALSE
                         /\ failed_stage' = "synthesis"
                         /\ pc' = "turn_returned"
                    ELSE /\ pc' = "play"
                         /\ UNCHANGED result
                 /\ UNCHANGED exit_route
    /\ UNCHANGED <<env, ui, sessionState, turn, frames, key_held, audio_file, transcript, user_text,
                   ai_response, playback, terminated, feedback, attempts, completed,
                   hist0, inputs0, chat_log, feedback_log>>

\* Step 5: play_audio, and the return of process_conversation_turn
PlayAudio ==
    /\ pc = "play"
    /\ stages' = Append(stages, "play")
    /\ \E how \in {"ok", "unavailable", "error", "interrupt"} :
         \* pygame.mixer.music.load raises when there is no such file
         /\ audio_response \notin files => how \in {"unavailable", "error", "interrupt"}
         /\ IF how = "interrupt"
            THEN /\ Interrupted
                 /\ UNCHANGED <<playback, result>>
            ELSE /\ playback' = how
                 /\ success' = Step5Return(how)
                 /\ failed_stage' = IF Step5Return(how) THEN "none" ELSE "playback"
                 /\ pc' = "turn_returned"
                 /\ UNCHANGED exit_route
    /\ UNCHANGED <<env, ui, sessionState, turn, frames, key_held, audio_file, transcript, user_text,
                   ai_response, audio_response, disk, terminated, feedback, attempts,
                   completed, hist0, inputs0, chat_log, feedback_log>>

\* main: after process_conversation_turn returned (its frame is gone)
MainAfterTurn ==
    /\ pc = "turn_returned"
    /\ frames' = 0
    /\ key_held' = 0
    /\ audio_file' = NoPath
    /\ transcript' = NoTranscript
    /\ user_text' = None
    /\ ai_response' = None
    /\ audio_response' = NoPath
    /\ playback' = "none"
    /\ stages' = <<>>
    /\ turn' = TurnAfter(turn, success)
    /\ IF success
       THEN /\ completed' = completed + 1
            /\ pc' = "loop"
            /\ UNCHANGED exit_route
            /\ UNCHANGED retry
       ELSE /\ \E answer \in {"y", "n", "eof", "interrupt"} :
                 /\ retry' = IF answer \in {"y", "n"} THEN answer ELSE retry
                 /\ pc' = AfterRetryAnswer(answer)
                 /\ exit_route' = CASE answer = "y" -> exit_route
                                    [] answer = "n" -> "declined"
                                    [] answer = "eof" -> "exception"
                                    [] OTHER -> "interrupt"
            /\ UNCHANGED completed
    /\ UNCHANGED <<env, console, sessionState, result, disk, terminated, feedback,
                   attempts, hist0, inputs0, chat_log, feedback_log>>

\* main: the feedback step after the loop, and generate_feedback
MainFeedback ==
    /\ pc = "feedback"
    /\ IF FeedbackWanted(user_inputs)
       THEN \E reply \in {FeedbackReport, "error", "interrupt"} :
              /\ feedback_log' =
                    Append(feedback_log,
                           [prompt |-> FormatConversation(conversation_history),
                            reply |-> reply])
              /\ IF reply = "interrupt"
                 THEN /\ Interrupted
                      /\ UNCHANGED feedback
                 ELSE /\ feedback' = FeedbackReturn(reply)
                      /\ pc' = "finally"
                      /\ UNCHANGED exit_route
       ELSE /\ feedback' = NoConversationMessage
            /\ pc' = "finally"
            /\ UNCHANGED <<feedback_log, exit_route>>
    /\ UNCHANGED <<env, ui, sessionState, turn, locals, result, disk, terminated,
                   attempts, completed, stages, hist0, inputs0, chat_log>>

\* main: finally, EchoFriend.cleanup, AudioRecorder.cleanup
MainFinally ==
    /\ pc = "finally"
    /\ terminated' = RecorderCleanup(terminated)
    /\ pc' = "done"
    /\ UNCHANGED <<env, ui, sessionState, turn, locals, result, disk, feedback,
                   exit_route, trace>>

Next ==
    \/ ModuleInit
    \/ MainCheckKey
    \/ MainSelectMicrophone
    \/ MainCreateSession
    \/ MainLoopPrompt
    \/ RecordUserInput
    \/ SpeechToText
    \/ GenerateResponse
    \/ TextToSpeech
    \/ PlayAudio
    \/ MainAfterTurn
    \/ MainFeedback
    \/ MainFinally

Spec == Init /\ [][Next]_vars

\* ------------------------------------------------------------ properties
UserEntry(text) == [role |-> "user", content |-> text]
LastCall == chat_log[Len(chat_log)]

\* C1: when the capture stage yields no file, process_conversation_turn returns
\* False at step 1, conversation_history and user_inputs are what they were when
\* the turn began, and record is the only stage that ran.
C1_CaptureFailureChangesNothing ==
    (pc = "turn_returned" /\ audio_file = NoPath) =>
        /\ ~success
        /\ failed_stage = "capture"
        /\ conversation_history = hist0
        /\ user_inputs = inputs0
        /\ stages = <<"record">>

C1_Witness ==
    /\ pc = "turn_returned"
    /\ audio_file = NoPath
    /\ frames = 0
    /\ Len(conversation_history) > 1

\* C2: when the transcription service raises or answers with an empty text, the
\* turn fails at step 2, no entry is appended to conversation_history or
\* user_inputs, and generate_response is not invoked in that turn.
C2_TranscriptionFailureChangesNothing ==
    (/\ pc = "turn_returned"
     /\ \/ transcript.shape = "error"
        \/ transcript.shape \in {"str", "object", "dict"} /\ transcript.text = "") =>
        /\ ~success
        /\ failed_stage = "transcription"
        /\ conversation_history = hist0
        /\ user_inputs = inputs0
        /\ stages = <<"record", "transcribe">>

C2_Witness ==
    /\ pc = "turn_returned"
    /\ transcript = [shape |-> "str", text |-> ""]
    /\ Len(conversation_history) > 1

\* C3: a turn reaches generate_response with a non-empty text and the history
\* of the turn's start; once generate_response has run, the messages it passed
\* to the chat service are the history of the turn's start followed by exactly
\* one user entry with the transcribed text, and they stay a prefix of the
\* history.
C3_UserEntryAppendedBeforeCall ==
    /\ pc = "respond" => (~Falsy(user_text) /\ conversation_history = hist0)
    /\ (Len(stages) >= 3 /\ stages[3] = "respond") =>
          /\ Len(chat_log) >= 1
          /\ LastCall.messages = Append(hist0, UserEntry(user_text))
          /\ IsPrefix(LastCall.messages, conversation_history)

C3_Witness ==
    /\ Len(stages) >= 3
    /\ Len(hist0) > 1
    /\ Len(LastCall.messages) = Len(hist0) + 1

\* C4: the user entry of a turn whose response generation failed stays where it
\* was appended, and the messages of the next call of the chat service contain
\* it, at that position and before that call's own user entry.
C4_FailedTurnUserEntryPersists ==
    \A k \in 1..Len(chat_log) :
        Step3Failed(IF chat_log[k].reply = "error" THEN None ELSE chat_log[k].reply) =>
            LET a == chat_log[k].messages
            IN /\ a[Len(a)].role = "user"
               /\ IsPrefix(a, conversation_history)
               /\ k < Len(chat_log) =>
                     LET b == chat_log[k + 1].messages
                     IN /\ IsPrefix(a, b)
                        /\ Len(a) < Len(b)
                        /\ b[Len(b)].role = "user"

C4_Witness ==
    \E k \in 1..Len(chat_log) :
        /\ chat_log[k].reply = "error"
        /\ k < Len(chat_log)
        /\ Len(chat_log[k + 1].messages) = Len(chat_log[k].messages) + 1

\* C5: while user_inputs is empty no feedback request is sent to the chat
\* service, and a session that ends by quit or declined retry with user_inputs
\* empty prints the fixed "no conversation" text.
C5_NoFeedbackCallWithoutUtterances ==
    user_inputs = <<>> =>
        /\ feedback_log = <<>>
        /\ (pc \in {"finally", "done"} /\ exit_route \in {"quit", "declined"}) =>
              feedback = NoConversationMessage

C5_Witness ==
    /\ pc = "done"
    /\ exit_route = "quit"
    /\ attempts = 0
    /\ user_inputs = <<>>
    /\ feedback = NoConversationMessage

\* C6 as stated: at the prompt the turn number is 1 plus the number of loop
\* iterations that ran a turn, successful or not.
C6_TurnCountsEveryIteration ==
    pc = "loop" => turn = attempts + 1

\* C6 as amended: the turn number is 1 at the first prompt, changes only when
\* process_conversation_turn has returned, and then grows by exactly 1 after a
\* turn in which no stage failed and stays the same after a failed turn.
C6_TurnCountsCompletedTurns ==
    /\ [](pc = "loop" /\ attempts = 0 => turn = 1)
    /\ [][/\ (session /\ pc # "turn_returned") => turn' = turn
          /\ pc = "turn_returned" =>
                turn' = IF failed_stage = "none" THEN turn + 1 ELSE turn]_vars

C6_Witness ==
    /\ pc = "record"
    /\ attempts = 3
    /\ turn = 2

\* C7: files written under different turn numbers have different paths, the
\* capture file and the speech file of one turn have different paths, and every
\* file written still exists.
C7_PathsDoNotCollide ==
    /\ \A a, b \in written :
          (a.turn # b.turn \/ a.kind # b.kind) => a.path # b.path
    /\ \A a \in written : a.path \in files

C7_Witness ==
    /\ \E a, b \in written : a.turn # b.turn /\ a.kind = "capture" /\ b.kind = "capture"
    /\ \E a, b \in written : a.turn # b.turn /\ a.kind = "speech" /\ b.kind = "speech"

\* C8: the recorder's audio handle is terminated at most once, exactly once when
\* a session that was constructed has ended by any route, never without a
\* session, and no stage runs after it.
C8_ReleasedExactlyOnce ==
    /\ [](/\ terminated <= 1
          /\ (pc = "done" /\ session) => terminated = 1
          /\ terminated = 1 => (session /\ pc = "done")
          /\ (session /\ exit_route # "none") => pc \in {"feedback", "finally", "done"})
    /\ [][terminated >= 1 => stages' = stages]_vars

C8_Witness ==
    /\ pc = "done"
    /\ terminated = 1
    /\ exit_route = "exception"
    /\ completed > 0

\* C9: a turn whose synthesis succeeded returns True however playback ended.
C9_PlaybackNeverFailsTurn ==
    (pc = "turn_returned" /\ audio_response # NoPath) =>
        /\ playback \in {"ok", "unavailable", "error"}
        /\ success
        /\ failed_stage = "none"
        /\ stages = <<"record", "transcribe", "respond", "synthesize", "play">>

C9_Witness ==
    /\ pc = "turn_returned"
    /\ playback = "error"
    /\ success

\* C10: the history of a session starts with one system entry and has no other,
\* and every step leaves the previous history as a prefix of the new one.
C10_SystemEntryFirstAppendOnly ==
    /\ [](session =>
            /\ Len(conversation_history) >= 1
            /\ conversation_history[1] = [role |-> "system", content |-> SystemPrompt]
            /\ \A i \in 2..Len(conversation_history) :
                  conversation_history[i].role \in {"user", "assistant"})
    /\ [][IsPrefix(conversation_history, conversation_history')]_vars

C10_Witness ==
    /\ session
    /\ Len(conversation_history) >= 4
    /\ pc = "done"
    /\ feedback = FeedbackReport

\* C11: a failed turn ends neither the session nor anything but the turn: when
\* process_conversation_turn has returned False nothing has been released and
\* the loop has not been left; the retry prompt changes neither the history nor
\* the log; the loop goes on exactly when the answer is 'y'; with 'n' the
\* feedback step is reached, and it sends its request when the log is not empty.
C11_FailedTurnEndsOnlyTheTurn ==
    /\ []((pc = "turn_returned" /\ ~success) =>
            /\ terminated = 0
            /\ exit_route = "none"
            /\ IsPrefix(hist0, conversation_history)
            /\ IsPrefix(inputs0, user_inputs))
    /\ [][(pc = "turn_returned" /\ ~success) =>
            /\ conversation_history' = conversation_history
            /\ user_inputs' = user_inputs
            /\ pc' \in {"loop", "feedback", "finally"}
            /\ (pc' = "loop") <=> (retry' = "y" /\ exit_route' = "none")
            /\ (pc' = "feedback") <=> (exit_route' = "declined")
            /\ (pc' = "feedback") => (retry' = "n")]_vars
    /\ []((exit_route = "declined" /\ pc \in {"finally", "done"} /\ user_inputs # <<>>) =>
            Len(feedback_log) = 1)

C11_Witness ==
    /\ pc = "done"
    /\ exit_route = "declined"
    /\ failed_stage = "response"
    /\ Len(feedback_log) = 1

\* C12: no stage runs twice in one call of process_conversation_turn, and a
\* turn that follows a failed turn starts only after the answer 'y' at the retry
\* prompt.
C12_NoAutomaticRetry ==
    /\ [](\A i, j \in 1..Len(stages) : stages[i] = stages[j] => i = j)
    /\ [][(pc' = "record" /\ pc # "record") =>
            /\ pc = "loop"
            /\ (attempts > 0 /\ ~success) => retry = "y"]_vars

C12_Witness ==
    /\ pc = "play"
    /\ retry = "y"
    /\ attempts >= 2
    /\ Len(stages) = 4

\* C13: without the API key no session is constructed, no stage runs, no
\* request is sent, no file is written, no audio handle is released, and the
\* program ends with an error shown to the user.
C13_NoSessionWithoutKey ==
    ~api_key =>
        /\ ~session
        /\ pc \in {"import", "main", "done"}
        /\ conversation_history = <<>>
        /\ attempts = 0
        /\ stages = <<>>
        /\ chat_log = <<>>
        /\ feedback_log = <<>>
        /\ files = {}
        /\ terminated = 0
        /\ pc = "done" => console \in {ApiKeyMissingMessage, ClientErrorTraceback}

C13_Witness ==
    /\ ~api_key
    /\ pc = "done"
    /\ console = ApiKeyMissingMessage

\* C14 as stated: an answer of the transcription service of unknown shape makes
\* the turn fail at step 2 with the history unchanged.
C14_UnknownShapeIsAnError ==
    transcript.shape = "other" =>
        /\ pc = "turn_returned"
        /\ failed_stage = "transcription"
        /\ conversation_history = hist0

\* C15: when the feedback request fails, the apology text is what
\* generate_feedback returns, the session goes on to the teardown by the route
\* it had taken, and the feedback step changes neither the history nor the log.
C15_FeedbackFailureAbsorbed ==
    /\ [](\A k \in 1..Len(feedback_log) :
            feedback_log[k].reply = "error" =>
                /\ feedback = FeedbackErrorMessage
                /\ pc \in {"finally", "done"}
                /\ exit_route \in {"quit", "declined"}
                /\ pc = "done" => terminated = 1)
    /\ [][pc = "feedback" =>
            /\ conversation_history' = conversation_history
            /\ user_inputs' = user_inputs]_vars

C15_Witness ==
    /\ pc = "done"
    /\ Len(feedback_log) = 1
    /\ feedback_log[1].reply = "error"
    /\ terminated = 1

AssistantEntry(text) == [role |-> "assistant", content |-> text]

\* C16: when synthesis yields no file the turn fails at step 4, play_audio is
\* not invoked, the history is that of the turn's start followed by the turn's
\* user entry and assistant entry, and the log has gained the user utterance.
C16_SynthesisFailureKeepsEntries ==
    (pc = "turn_returned" /\ Len(stages) >= 4 /\ audio_response = NoPath) =>
        /\ ~success
        /\ failed_stage = "synthesis"
        /\ stages = <<"record", "transcribe", "respond", "synthesize">>
        /\ conversation_history =
              hist0 \o <<UserEntry(user_text), AssistantEntry(ai_response)>>
        /\ user_inputs = Append(inputs0, [text |-> user_text, timestamp |-> Len(hist0)])

C16_Witness ==
    /\ pc = "turn_returned"
    /\ failed_stage = "synthesis"
    /\ Len(hist0) > 1

\* C17: a turn that returns True has extended the history by the user entry
\* with the text of step 2 followed by the assistant entry with the reply, and
\* the log by one entry with that text.
C17_CompletedTurnAddsTwoEntries ==
    (pc = "turn_returned" /\ success) =>
        /\ ~Falsy(user_text)
        /\ ~Falsy(ai_response)
        /\ conversation_history =
              hist0 \o <<UserEntry(user_text), AssistantEntry(ai_response)>>
        /\ Len(user_inputs) = Len(inputs0) + 1
        /\ IsPrefix(inputs0, user_inputs)
        /\ user_inputs[Len(user_inputs)].text = user_text

C17_Witness ==
    /\ pc = "turn_returned"
    /\ success
    /\ user_text \in Texts
    /\ Len(hist0) >= 3

\* C18 as stated: a read that raises while the key is held costs that one
\* frame only; every other poll of the held key adds its frame.
C18_ReadErrorIsSkipped ==
    frames < key_held => frames = key_held - 1

\* C19 as stated: every line of the prompt sent for feedback is an utterance of
\* the learner.
C19_FeedbackFromUserUtterancesOnly ==
    \A k \in 1..Len(feedback_log) :
        \A i \in 1..Len(feedback_log[k].prompt) :
            feedback_log[k].prompt[i][1] = "Learner: "

\* C19 as amended: the prompt sent for feedback has one line for every user
\* and assistant entry of the history, in the history's order, labelled
\* Learner and Assistant, and no line for the system entry.
C19_FeedbackFromUserAndAssistantEntries ==
    \A k \in 1..Len(feedback_log) :
        LET prompt == feedback_log[k].prompt
        IN /\ Len(prompt) = Len(conversation_history) - 1
           /\ \A i \in 1..Len(prompt) :
                 prompt[i] =
                     << IF conversation_history[i + 1].role = "user"
                        THEN "Learner: " ELSE "Assistant: ",
                        conversation_history[i + 1].content >>

C19_Witness ==
    /\ Len(feedback_log) = 1
    /\ Len(feedback_log[1].prompt) >= 3
    /\ \E i \in 1..Len(feedback_log[1].prompt) :
          feedback_log[1].prompt[i][1] = "Assistant: "

\* C20 as stated: a turn that failed at step 3 has added the user entry to the
\* history and nothing else.
C20_FailedResponseAddsOnlyUserEntry ==
    (pc = "turn_returned" /\ failed_stage = "response") =>
        conversation_history = Append(hist0, UserEntry(user_text))

StageOrder == <<"record", "transcribe", "respond", "synthesize", "play">>

\* C21: the stages of a turn run in the order record, transcribe, respond,
\* synthesize, play; a stage has run only if the one before it gave a usable
\* value; the stage about to run is the next in that order; and no stage has
\* run or is running when the loop prompts the user.
C21_StagesInOrder ==
    /\ IsPrefix(stages, StageOrder)
    /\ Len(stages) >= 2 => audio_file # NoPath
    /\ Len(stages) >= 3 => ~Falsy(user_text)
    /\ Len(stages) >= 4 => ~Falsy(ai_response)
    /\ Len(stages) >= 5 => audio_response # NoPath
    /\ \A k \in 1..Len(StageOrder) :
          pc = StageOrder[k] =>
              Len(stages) = k - 1
    /\ pc = "loop" => stages = <<>>

C21_Witness ==
    /\ pc = "turn_returned"
    /\ stages = StageOrder
    /\ attempts >= 2

\* C22: the turn number is 1 plus the number of turns that returned True, and
\* the capture file and the speech file of an attempt are those of that number,
\* so that a retry writes where the failed attempt wrote.
C22_TurnIsCompletedPlusOne ==
    session =>
        /\ turn = completed + 1
        /\ audio_file # NoPath => audio_file = UserInputPath(completed + 1)
        /\ audio_response # NoPath => audio_response = AiResponsePath(completed + 1)
        /\ \A w \in written : w.turn <= completed + 1

C22_Witness ==
    /\ pc = "transcribe"
    /\ retry = "y"
    /\ completed = 0
    /\ chat_log # <<>>
    /\ audio_file = UserInputPath(1)
    /\ Cardinality(files) = 1

RECURSIVE UserPositions(_, _)
\* the positions of the user entries among the first n entries of the history
UserPositions(history, n) ==
    IF n = 0 THEN <<>>
    ELSE UserPositions(history, n - 1)
         \o (IF history[n].role = "user" THEN <<n>> ELSE <<>>)

\* C23: the log has one entry per user entry of the history, in the same order
\* and with the same text, and its timestamp is the list index (from 0) of that
\* user entry in the history.
C23_LogMirrorsUserEntries ==
    LET pos == UserPositions(conversation_history, Len(conversation_history))
    IN /\ Len(user_inputs) = Len(pos)
       /\ \A k \in 1..Len(pos) :
             /\ k <= Len(user_inputs)
             /\ user_inputs[k].text = conversation_history[pos[k]].content
             /\ user_inputs[k].timestamp = pos[k] - 1

C23_Witness ==
    /\ Len(user_inputs) >= 3
    /\ user_inputs[2].timestamp = user_inputs[1].timestamp + 1
    /\ user_inputs[3].timestamp = user_inputs[2].timestamp + 2

\* C24: every assistant entry of the history comes right after a user entry,
\* and a user entry comes right after a user entry only when the call of the
\* chat service made for the earlier one raised.
C24_AssistantFollowsUser ==
    \A i \in 1..Len(conversation_history) :
        /\ conversation_history[i].role = "assistant" =>
              (i > 1 /\ conversation_history[i - 1].role = "user")
        /\ (/\ i < Len(conversation_history)
            /\ conversation_history[i].role = "user"
            /\ conversation_history[i + 1].role = "user") =>
              \E k \in 1..Len(chat_log) :
                  /\ Len(chat_log[k].messages) = i
                  /\ chat_log[k].reply = "error"

C24_Witness ==
    /\ Len(conversation_history) >= 5
    /\ conversation_history[2].role = "user"
    /\ conversation_history[3].role = "user"
    /\ conversation_history[5].role = "assistant"

====
